---- MODULE Spec2Model ----
(***************************************************************************)
(* Video-to-Text Transcriber (src/app.py).                                 *)
(*                                                                         *)
(* The module models                                                       *)
(*   - the pure helpers is_valid_url and infer_extension, computed on      *)
(*     character sequences the way the code (and the standard-library      *)
(*     calls it makes: urlparse, os.path.splitext, str.lower, str.split,   *)
(*     str.strip, mimetypes.guess_extension) computes them;                *)
(*   - the request-handling flow of main: validation, download_media       *)
(*     (request, status check, headers, temporary file, chunk loop with    *)
(*     progress updates, finally block), transcribe_file, the except       *)
(*     clauses and the finally block of main.                              *)
(*                                                                         *)
(* A Python string is a sequence of one-character strings.  Python's None  *)
(* is the sequence None, which is no character sequence.                   *)
(*                                                                         *)
(* Exceptions are the environment's choice at the calls that can raise:    *)
(* requests.get, raise_for_status (by the status), int (by the header),    *)
(* NamedTemporaryFile, the progress-widget calls of download_media,        *)
(* iter_content, write, the transcription, os.remove.  flush, close and    *)
(* the st.* calls of main are taken to succeed.                            *)
(*                                                                         *)
(* urlparse is modelled as CPython 3.11 computes it on the inputs used:    *)
(* leading blanks stripped, scheme, netloc, fragment, query and parameters *)
(* split off, ValueError on a netloc with an unmatched bracket.            *)
(***************************************************************************)
EXTENDS Integers, Sequences, FiniteSets, TLC

(***************************************************************************)
(* Strings                                                                 *)
(***************************************************************************)

None == <<"<None>">>

UPPER == <<"A","B","C","D","E","F","G","H","I","J","K","L","M","N","O","P","Q","R","S","T","U","V","W","X","Y","Z">>

LOWER == <<"a","b","c","d","e","f","g","h","i","j","k","l","m","n","o","p","q","r","s","t","u","v","w","x","y","z">>

DIGITS == <<"0","1","2","3","4","5","6","7","8","9">>

\* urllib.parse.scheme_chars: letters, digits and "+-."
scheme_chars ==
    { LOWER[i] : i \in 1..Len(LOWER) } \cup { UPPER[i] : i \in 1..Len(UPPER) }
      \cup { DIGITS[i] : i \in 1..Len(DIGITS) } \cup { "+", "-", "." }

IsAlpha(c) ==
    \E i \in 1..Len(LOWER) : c = LOWER[i] \/ c = UPPER[i]

Contains(s, c) == \E i \in 1..Len(s) : s[i] = c

\* str.find(c, start): the first index >= start holding c; 0 when there is
\* none (Python's -1; indices here are 1-based).
find(s, c, start) ==
    IF \E i \in start..Len(s) : s[i] = c
    THEN CHOOSE i \in start..Len(s) :
             s[i] = c /\ \A j \in start..(i - 1) : s[j] # c
    ELSE 0

\* str.rfind(c): the last index holding c; 0 when there is none.
rfind(s, c) ==
    IF Contains(s, c)
    THEN CHOOSE i \in 1..Len(s) :
             s[i] = c /\ \A j \in (i + 1)..Len(s) : s[j] # c
    ELSE 0

lower_char(c) ==
    IF \E i \in 1..Len(UPPER) : UPPER[i] = c
    THEN LOWER[CHOOSE i \in 1..Len(UPPER) : UPPER[i] = c]
    ELSE c

\* str.lower()
lower(s) == [i \in 1..Len(s) |-> lower_char(s[i])]

\* str.lstrip on blanks (the only character of the stripped class that the
\* inputs hold).
lstrip(s) ==
    IF \E i \in 1..Len(s) : s[i] # " "
    THEN SubSeq(s, CHOOSE i \in 1..Len(s) :
                       s[i] # " " /\ \A j \in 1..(i - 1) : s[j] = " ",
                Len(s))
    ELSE <<>>

rstrip(s) ==
    IF \E i \in 1..Len(s) : s[i] # " "
    THEN SubSeq(s, 1, CHOOSE i \in 1..Len(s) :
                          s[i] # " " /\ \A j \in (i + 1)..Len(s) : s[j] = " ")
    ELSE <<>>

\* str.strip()
strip(s) == rstrip(lstrip(s))

\* s.split(c)[0]: the text before the first c, all of s when there is none.
split_first(s, c) ==
    IF Contains(s, c) THEN SubSeq(s, 1, find(s, c, 1) - 1) ELSE s

\* Python truthiness of an optional string: None and "" are false.
Truthy(s) == s # None /\ s # <<>>

(***************************************************************************)
(* Tables (src/app.py lines 15-33)                                         *)
(***************************************************************************)

SUPPORTED_EXTS ==
    { <<".","m","p","3">>,
      <<".","m","p","4">>,
      <<".","m","p","e","g">>,
      <<".","m","p","g","a">>,
      <<".","m","4","a">>,
      <<".","w","a","v">>,
      <<".","w","e","b","m">>,
      <<".","o","g","g">>,
      <<".","o","g","a">>,
      <<".","m","k","v">>,
      <<".","m","o","v">>,
      <<".","m","4","v">> }

\* The dictionary's keys.
CONTENT_TYPE_KEYS ==
    { <<"a","u","d","i","o","/","m","p","e","g">>,
      <<"a","u","d","i","o","/","m","p","3">>,
      <<"a","u","d","i","o","/","m","p","4">>,
      <<"a","u","d","i","o","/","x","-","m","4","a">>,
      <<"a","u","d","i","o","/","w","a","v">>,
      <<"a","u","d","i","o","/","x","-","w","a","v">>,
      <<"a","u","d","i","o","/","w","e","b","m">>,
      <<"a","u","d","i","o","/","o","g","g">>,
      <<"v","i","d","e","o","/","m","p","4">>,
      <<"v","i","d","e","o","/","q","u","i","c","k","t","i","m","e">>,
      <<"v","i","d","e","o","/","x","-","m","a","t","r","o","s","k","a">>,
      <<"v","i","d","e","o","/","w","e","b","m">> }

\* CONTENT_TYPE_TO_EXT[ct], for ct a key.
CONTENT_TYPE_TO_EXT(ct) ==
    CASE ct = <<"a","u","d","i","o","/","m","p","e","g">> -> <<".","m","p","3">>
      [] ct = <<"a","u","d","i","o","/","m","p","3">> -> <<".","m","p","3">>
      [] ct = <<"a","u","d","i","o","/","m","p","4">> -> <<".","m","4","a">>
      [] ct = <<"a","u","d","i","o","/","x","-","m","4","a">> -> <<".","m","4","a">>
      [] ct = <<"a","u","d","i","o","/","w","a","v">> -> <<".","w","a","v">>
      [] ct = <<"a","u","d","i","o","/","x","-","w","a","v">> -> <<".","w","a","v">>
      [] ct = <<"a","u","d","i","o","/","w","e","b","m">> -> <<".","w","e","b","m">>
      [] ct = <<"a","u","d","i","o","/","o","g","g">> -> <<".","o","g","g">>
      [] ct = <<"v","i","d","e","o","/","m","p","4">> -> <<".","m","p","4">>
      [] ct = <<"v","i","d","e","o","/","q","u","i","c","k","t","i","m","e">> -> <<".","m","o","v">>
      [] ct = <<"v","i","d","e","o","/","x","-","m","a","t","r","o","s","k","a">> -> <<".","m","k","v">>
      [] ct = <<"v","i","d","e","o","/","w","e","b","m">> -> <<".","w","e","b","m">>

\* A default that the supported set does not hold.
DEFAULT_EXT_unsupported == <<".","a","v","i">>

\* The default of infer_extension (line 61) and of download_media (line 75).
DEFAULT_EXT == <<".","m","p","4">>

\* mimetypes.guess_extension on a normalized type, as CPython's built-in
\* table answers for the types the inputs hold: the first extension
\* registered for the type, None for a type it does not know.
guess_extension(ct) ==
    CASE ct = <<"v","i","d","e","o","/","m","p","e","g">> -> <<".","m","p","e","g">>
      [] ct = <<"a","u","d","i","o","/","a","a","c">> -> <<".","a","a","c">>
      [] ct = <<"a","u","d","i","o","/","f","l","a","c">> -> <<".","f","l","a","c">>
      [] ct = <<"t","e","x","t","/","h","t","m","l">> -> <<".","h","t","m","l">>
      [] ct = <<"a","p","p","l","i","c","a","t","i","o","n","/","o","c","t","e","t","-","s","t","r","e","a","m">> -> <<".","b","i","n">>
      [] OTHER -> None

(***************************************************************************)
(* urllib.parse.urlparse and os.path.splitext                              *)
(***************************************************************************)

\* urllib.parse.uses_params
uses_params ==
    { <<>>, <<"f","t","p">>, <<"h","d","l">>, <<"p","r","o","s","p","e","r","o">>,
      <<"h","t","t","p">>, <<"i","m","a","p">>, <<"h","t","t","p","s">>,
      <<"s","h","t","t","p">>, <<"r","t","s","p">>, <<"r","t","s","p","s">>,
      <<"r","t","s","p","u">>, <<"s","i","p">>, <<"s","i","p","s">>,
      <<"m","m","s">>, <<"s","f","t","p">>, <<"t","e","l">> }

\* urlsplit's scheme step: <<scheme, rest>>.  A scheme is the text before
\* the first ":" when that text starts with a letter and holds scheme
\* characters only; it is lowercased.
split_scheme(url) ==
    LET i == find(url, ":", 1) IN
    IF i > 1 /\ IsAlpha(url[1]) /\ \A j \in 1..(i - 1) : url[j] \in scheme_chars
    THEN <<lower(SubSeq(url, 1, i - 1)), SubSeq(url, i + 1, Len(url))>>
    ELSE <<(<<>>), url>>

\* _splitnetloc(url, 2): <<netloc, rest>>, the netloc ending at the first of
\* "/", "?", "#" after the leading "//".
splitnetloc(url) ==
    LET cands == { find(url, c, 3) : c \in {"/", "?", "#"} } \ {0}
        delim == IF cands = {} THEN Len(url) + 1
                 ELSE CHOOSE d \in cands : \A e \in cands : d <= e
    IN <<SubSeq(url, 3, delim - 1), SubSeq(url, delim, Len(url))>>

\* _splitparams(url): the path without the parameters of its last segment.
splitparams(url) ==
    LET i == IF Contains(url, "/") THEN find(url, ";", rfind(url, "/"))
             ELSE find(url, ";", 1)
    IN IF i = 0 THEN url ELSE SubSeq(url, 1, i - 1)

\* urlparse(url): [raised, scheme, netloc, path].  raised is the ValueError
\* "Invalid IPv6 URL" of a netloc holding one bracket without the other.
\* (A netloc holding both brackets goes on to an IP-address check that is
\* not modelled; no input holds both.)
urlparse(url) ==
    LET u0 == lstrip(url)
        sch == split_scheme(u0)
        hasNet == Len(sch[2]) >= 2 /\ sch[2][1] = "/" /\ sch[2][2] = "/"
        nl == IF hasNet THEN splitnetloc(sch[2]) ELSE <<(<<>>), sch[2]>>
        netloc == nl[1]
        noFrag == split_first(nl[2], "#")
        noQuery == split_first(noFrag, "?")
        path == IF sch[1] \in uses_params /\ Contains(noQuery, ";")
                THEN splitparams(noQuery) ELSE noQuery
        bad == \/ Contains(netloc, "[") /\ ~Contains(netloc, "]")
               \/ Contains(netloc, "]") /\ ~Contains(netloc, "[")
    IN [raised |-> bad, scheme |-> sch[1], netloc |-> netloc, path |-> path]

\* os.path.splitext(p)[1]: the text from the last "." of the last path
\* segment, unless that segment holds only dots before it.
splitext_ext(p) ==
    LET sepIndex == rfind(p, "/")
        dotIndex == rfind(p, ".")
    IN IF dotIndex > sepIndex
          /\ \E k \in (sepIndex + 1)..(dotIndex - 1) : p[k] # "."
       THEN SubSeq(p, dotIndex, Len(p))
       ELSE <<>>

(***************************************************************************)
(* is_valid_url and infer_extension (src/app.py lines 36-61)               *)
(***************************************************************************)

\* is_valid_url without the check of the host.
is_valid_url_any_host(url) ==
    LET parsed == urlparse(url) IN
    IF parsed.raised THEN FALSE
    ELSE parsed.scheme \in { <<"h","t","t","p">>, <<"h","t","t","p","s">> }

is_valid_url(url) ==
    LET parsed == urlparse(url) IN
    IF parsed.raised THEN FALSE
    ELSE parsed.scheme \in { <<"h","t","t","p">>, <<"h","t","t","p","s">> }
         /\ parsed.netloc # <<>>

\* infer_extension asking the content type before the path.
infer_extension_type_first(url, content_type) ==
    LET parsed == urlparse(url)
        path_ext == lower(splitext_ext(parsed.path))
        ct == lower(strip(split_first(content_type, ";")))
        guessed == guess_extension(ct)
    IN IF parsed.raised THEN [raised |-> TRUE, value |-> None]
       ELSE IF Truthy(content_type) /\ ct \in CONTENT_TYPE_KEYS
            THEN [raised |-> FALSE, value |-> CONTENT_TYPE_TO_EXT(ct)]
       ELSE IF path_ext \in SUPPORTED_EXTS THEN [raised |-> FALSE, value |-> path_ext]
       ELSE IF Truthy(content_type) /\ guessed # None /\ guessed \in SUPPORTED_EXTS
            THEN [raised |-> FALSE, value |-> guessed]
       ELSE [raised |-> FALSE, value |-> DEFAULT_EXT]

\* infer_extension looking the content type up as it came, parameters and all.
infer_extension_raw_type(url, content_type) ==
    LET parsed == urlparse(url)
        path_ext == lower(splitext_ext(parsed.path))
        ct == content_type
        guessed == guess_extension(ct)
    IN IF parsed.raised THEN [raised |-> TRUE, value |-> None]
       ELSE IF path_ext \in SUPPORTED_EXTS THEN [raised |-> FALSE, value |-> path_ext]
       ELSE IF Truthy(content_type) /\ ct \in CONTENT_TYPE_KEYS
            THEN [raised |-> FALSE, value |-> CONTENT_TYPE_TO_EXT(ct)]
       ELSE IF Truthy(content_type) /\ guessed # None /\ guessed \in SUPPORTED_EXTS
            THEN [raised |-> FALSE, value |-> guessed]
       ELSE [raised |-> FALSE, value |-> DEFAULT_EXT]

\* infer_extension returning whatever guess_extension answers.
infer_extension_any_guess(url, content_type) ==
    LET parsed == urlparse(url)
        path_ext == lower(splitext_ext(parsed.path))
        ct == lower(strip(split_first(content_type, ";")))
        guessed == guess_extension(ct)
    IN IF parsed.raised THEN [raised |-> TRUE, value |-> None]
       ELSE IF path_ext \in SUPPORTED_EXTS THEN [raised |-> FALSE, value |-> path_ext]
       ELSE IF Truthy(content_type) /\ ct \in CONTENT_TYPE_KEYS
            THEN [raised |-> FALSE, value |-> CONTENT_TYPE_TO_EXT(ct)]
       ELSE IF Truthy(content_type) /\ guessed # None
            THEN [raised |-> FALSE, value |-> guessed]
       ELSE [raised |-> FALSE, value |-> DEFAULT_EXT]

\* [raised, value]: raised when urlparse raises (nothing catches it here).
infer_extension(url, content_type) ==
    LET parsed == urlparse(url)
        path_ext == lower(splitext_ext(parsed.path))
        ct == lower(strip(split_first(content_type, ";")))
        guessed == guess_extension(ct)
    IN IF parsed.raised THEN [raised |-> TRUE, value |-> None]
       ELSE IF path_ext \in SUPPORTED_EXTS THEN [raised |-> FALSE, value |-> path_ext]
       ELSE IF Truthy(content_type) /\ ct \in CONTENT_TYPE_KEYS
            THEN [raised |-> FALSE, value |-> CONTENT_TYPE_TO_EXT(ct)]
       ELSE IF Truthy(content_type) /\ guessed # None /\ guessed \in SUPPORTED_EXTS
            THEN [raised |-> FALSE, value |-> guessed]
       ELSE [raised |-> FALSE, value |-> DEFAULT_EXT]

\* download_media lines 72-75: the suffix of the temporary file.  The call of
\* infer_extension raises what urlparse raises.
download_suffix(url, content_type) ==
    LET r == infer_extension(url, content_type) IN
    IF r.raised THEN r
    ELSE IF r.value \notin SUPPORTED_EXTS THEN [raised |-> FALSE, value |-> DEFAULT_EXT]
    ELSE r

(***************************************************************************)
(* Inputs                                                                  *)
(***************************************************************************)

SchemeParts ==
    { <<>>, <<"h","t","t","p",":">>, <<"h","t","t","p","s",":">>,
      <<"H","t","T","p",":">>, <<"f","t","p",":">> }

SepParts == { <<>>, <<"/","/">> }

HostParts == { <<>>, <<"x",".","c">>, <<"[","x">> }

PathParts ==
    { <<>>, <<"/","a">>, <<"/","a",".","m","p","3">>, <<"/","a",".","W","A","V">>,
      <<"/","a",".","t","x","t">>, <<"/",".","m","p","3">>,
      <<"/","a",".","m","p","3","/">>, <<"/","a",".","b","/","c">> }

TailParts ==
    { <<>>, <<"?","q",".","m","p","3">>, <<"#","f",".","w","a","v">>,
      <<";","p",".","o","g","g">> }

\* The strings of the specification's examples.
ExampleUrls ==
    { <<"h","t","t","p","s",":","/","/","e","x","a","m","p","l","e",".","c","o","m","/","v",".","m","p","4">>,
      <<"f","t","p",":","/","/","x",".","c","o","m","/","v",".","m","p","4">>,
      <<"n","o","t"," ","a"," ","u","r","l">>,
      <<"h","t","t","p",":","/","/">>,
      <<"h","t","t","p","s",":","/","/","x",".","c","o","m","/","a","/","b",".","W","A","V">>,
      <<" ","h","t","t","p",":","/","/","x","/","a",".","o","g","a">>,
      <<"h","t","t","p",":","/","/","x","]","/","a",".","m","p","3">> }

URLS ==
    { a \o b \o c \o d \o e :
        a \in SchemeParts, b \in SepParts, c \in HostParts, d \in PathParts,
        e \in TailParts } \cup ExampleUrls

\* Content-type arguments: absent, empty, keys of the table (bare, with
\* parameters, in other case and padded), types only guess_extension knows,
\* and a type nothing knows.
CONTENT_TYPES ==
    { None, <<>>,
      <<"a","u","d","i","o","/","m","p","e","g",";"," ","c","h","a","r","s","e","t","=","b","i","n","a","r","y">>,
      <<" ","A","u","d","i","o","/","X","-","W","a","v"," ",";","q">>,
      <<"v","i","d","e","o","/","m","p","4">>,
      <<"v","i","d","e","o","/","m","p","e","g">>,
      <<"a","u","d","i","o","/","a","a","c">>,
      <<"t","e","x","t","/","h","t","m","l">>,
      <<"a","p","p","l","i","c","a","t","i","o","n","/","o","c","t","e","t","-","s","t","r","e","a","m">> }

\* The URLs the request-handling flow is run on: empty, without scheme, with
\* another scheme, without host, unparsable, and valid ones with a supported,
\* an upper-case, an unsupported and no path extension.
FLOW_URLS ==
    { <<>>,
      <<"n","o","t"," ","a"," ","u","r","l">>,
      <<"f","t","p",":","/","/","x",".","c","o","m","/","v",".","m","p","4">>,
      <<"h","t","t","p",":","/","/">>,
      <<"h","t","t","p",":","/","/","[","x","/","a",".","m","p","3">>,
      <<"h","t","t","p","s",":","/","/","e","x","a","m","p","l","e",".","c","o","m","/","v",".","m","p","4">>,
      <<"h","t","t","p","s",":","/","/","x",".","c","o","m","/","a","/","b",".","W","A","V">>,
      <<"h","t","t","p",":","/","/","x",".","c","/","a",".","t","x","t">>,
      <<"h","t","t","p",":","/","/","x",".","c","/","a">> }

\* The selectbox's options (line 118), three of the twelve.
LANGUAGES == { "Auto-detect", "en", "es" }

\* Final response statuses a server can answer with.
STATUSES == { 200, 206, 304, 404, 500 }

\* Content-Length headers: absent, zero, sizes some chunk sequences add up
\* to, a size none adds up to, and text that is no number.
LENGTH_HEADERS ==
    { None, <<"0">>, <<"2">>, <<"1","0","4","8","5","7","7">>,
      <<"5","0","0","0","0","0","0">>, <<"x">> }

\* Content-Type headers: absent, a key of the table with parameters, a type
\* only guess_extension knows, a type that maps to nothing supported.
TYPE_HEADERS ==
    { None,
      <<"a","u","d","i","o","/","m","p","e","g",";"," ","c","h","a","r","s","e","t","=","b","i","n","a","r","y">>,
      <<"v","i","d","e","o","/","m","p","e","g">>,
      <<"t","e","x","t","/","h","t","m","l">> }

\* iter_content(chunk_size) yields at most this many bytes at a time (line 79).
CHUNK_SIZE == 1048576

\* Lengths of the chunks iter_content yields: empty, one byte, a full chunk.
CHUNK_LENS == { 0, 1, CHUNK_SIZE }

\* The most chunks one response body is cut into.
MaxChunks == 2

(***************************************************************************)
(* Helpers of the flow                                                     *)
(***************************************************************************)

RECURSIVE SumSeq(_)
SumSeq(q) == IF q = <<>> THEN 0 ELSE q[1] + SumSeq(Tail(q))

IsDigit(c) == \E i \in 1..Len(DIGITS) : DIGITS[i] = c

DigitValue(c) == (CHOOSE i \in 1..Len(DIGITS) : DIGITS[i] = c) - 1

\* int(text) on a header value: the decimal number; int raises ValueError on
\* text that is no number.
IsNumber(text) == text # <<>> /\ \A i \in 1..Len(text) : IsDigit(text[i])

RECURSIVE IntOf(_)
IntOf(text) ==
    IF text = <<>> THEN 0
    ELSE IntOf(SubSeq(text, 1, Len(text) - 1)) * 10 + DigitValue(text[Len(text)])

\* Response.raise_for_status(): HTTPError, a RequestException, for a 4xx or
\* 5xx status and for no other.
raise_for_status(status) == 400 <= status /\ status < 600

\* The number shown by f"{downloaded/1_000_000:.1f} MB", in tenths of a
\* megabyte (rounded to the nearest tenth; no sum of CHUNK_LENS is a tie).
mb_text(downloaded) == (downloaded + 50000) \div 100000

\* min(downloaded / total, 1.0) as a fraction <<numerator, denominator>>.
progress_value(downloaded, total) ==
    IF downloaded >= total THEN <<1, 1>> ELSE <<downloaded, total>>

\* The update made after a chunk, dividing by total without asking whether
\* it is known.
progress_update_always_fraction(downloaded, total) ==
    [value |-> progress_value(downloaded, total), mb |-> mb_text(downloaded)]

\* The update made after a chunk (lines 86-91): the bar's value and text.
progress_update(downloaded, total) ==
    IF total > 0
    THEN [value |-> progress_value(downloaded, total), mb |-> mb_text(downloaded)]
    ELSE [value |-> <<0, 1>>, mb |-> mb_text(downloaded)]

\* transcribe_file's language argument to the API (line 105).
language_hint(language) ==
    IF language # "" /\ language # "Auto-detect" THEN language ELSE "None"

(***************************************************************************)
(* State                                                                   *)
(***************************************************************************)

VARIABLES
    pc,               \* where the script run is
    url,              \* st.text_input
    language,         \* st.selectbox
    clicked,          \* st.button
    shown,            \* what the page shows: errors, warning, results
    placeholder,      \* progress_placeholder: "none", "created", "emptied"
    httpRequests,     \* requests.get calls made
    resp,             \* the response: [open, status, length, type]
    total,            \* download_media's total
    tmp,              \* the temporary file: [created, exists, open, flushed, suffix]
    chunk,            \* the chunk the loop holds
    nchunks,          \* chunks iter_content has yielded
    written,          \* the lengths of the chunks written to the file
    downloaded,       \* download_media's downloaded
    reports,          \* the progress bar's updates, the creating one first
    exc,              \* the exception in flight: "none", "RequestException", "Exception"
    returned,         \* how download_media ended: "no", "path", "raised"
    downloaded_path,  \* main's downloaded_path: "None" or "tmp"
    transcribeCalls,  \* transcribe_file calls made
    hint,             \* the language given to the API
    removeFailed,     \* os.remove raised (and main swallowed it)
    fnUrl,            \* a direct call's url argument
    fnCt,             \* a direct call's content_type argument
    fnCall,           \* the function called directly
    fnResult          \* what it returned: [raised, value]

flowVars ==
    <<pc, url, language, clicked, shown, placeholder, httpRequests, resp, total,
      tmp, chunk, nchunks, written, downloaded, reports, exc, returned,
      downloaded_path, transcribeCalls, hint, removeFailed>>

fnVars == <<fnUrl, fnCt, fnCall, fnResult>>

vars == <<flowVars, fnVars>>

NoResp == [open |-> FALSE, status |-> 0, length |-> None, type |-> None]

NoTmp ==
    [created |-> FALSE, exists |-> FALSE, open |-> FALSE, flushed |-> FALSE,
     suffix |-> None]

\* The state a script run starts in, before main reads its widgets.
FlowStart ==
    /\ shown = {}
    /\ placeholder = "none"
    /\ httpRequests = 0
    /\ resp = NoResp
    /\ total = 0
    /\ tmp = NoTmp
    /\ chunk = 0
    /\ nchunks = 0
    /\ written = <<>>
    /\ downloaded = 0
    /\ reports = <<>>
    /\ exc = "none"
    /\ returned = "no"
    /\ downloaded_path = "None"
    /\ transcribeCalls = 0
    /\ hint = "None"
    /\ removeFailed = FALSE

FnStart ==
    /\ fnCall = "none"
    /\ fnResult = [raised |-> FALSE, value |-> None]

\* One script run of main, on every input of the widgets.
Init ==
    /\ pc = "main"
    /\ url \in FLOW_URLS
    /\ language \in LANGUAGES
    /\ clicked \in BOOLEAN
    /\ FlowStart
    /\ fnUrl = <<>>
    /\ fnCt = None
    /\ FnStart

(***************************************************************************)
(* main, up to the download (src/app.py lines 115-133)                     *)
(***************************************************************************)

\* MainClick refusing only the empty URL.
MainClick_only_empty_refused ==
    /\ pc = "main"
    /\ \/ /\ ~clicked
          /\ pc' = "done"
          /\ UNCHANGED <<shown, placeholder>>
       \/ /\ clicked
          /\ url = <<>>
          /\ shown' = shown \cup {"error: invalid url"}
          /\ pc' = "done"
          /\ UNCHANGED placeholder
       \/ /\ clicked
          /\ url # <<>>
          /\ placeholder' = "created"
          /\ pc' = "dl_get"
          /\ UNCHANGED shown
    /\ UNCHANGED <<url, language, clicked, httpRequests, resp, total, tmp, chunk,
                   nchunks, written, downloaded, reports, exc, returned,
                   downloaded_path, transcribeCalls, hint, removeFailed>>
    /\ UNCHANGED fnVars

\* Lines 121-130: the button, the validation, the placeholder.
MainClick ==
    /\ pc = "main"
    /\ \/ /\ ~clicked
          /\ pc' = "done"
          /\ UNCHANGED <<shown, placeholder>>
       \/ /\ clicked
          /\ (url = <<>> \/ ~is_valid_url(url))
          /\ shown' = shown \cup {"error: invalid url"}
          /\ pc' = "done"
          /\ UNCHANGED placeholder
       \/ /\ clicked
          /\ url # <<>>
          /\ is_valid_url(url)
          /\ placeholder' = "created"
          /\ pc' = "dl_get"
          /\ UNCHANGED shown
    /\ UNCHANGED <<url, language, clicked, httpRequests, resp, total, tmp, chunk,
                   nchunks, written, downloaded, reports, exc, returned,
                   downloaded_path, transcribeCalls, hint, removeFailed>>
    /\ UNCHANGED fnVars

(***************************************************************************)
(* download_media (src/app.py lines 64-97)                                 *)
(***************************************************************************)

\* Line 68: requests.get answers with a response, or raises a
\* RequestException (no connection, timeout).
DLGet ==
    /\ pc = "dl_get"
    /\ httpRequests' = httpRequests + 1
    /\ \/ /\ \E st \in STATUSES, len \in LENGTH_HEADERS, ty \in TYPE_HEADERS :
                resp' = [open |-> TRUE, status |-> st, length |-> len, type |-> ty]
          /\ pc' = "dl_status"
          /\ UNCHANGED <<exc, returned>>
       \/ /\ exc' = "RequestException"
          /\ returned' = "raised"
          /\ pc' = "main_except"
          /\ UNCHANGED resp
    /\ UNCHANGED <<url, language, clicked, shown, placeholder, total, tmp, chunk,
                   nchunks, written, downloaded, reports, downloaded_path,
                   transcribeCalls, hint, removeFailed>>
    /\ UNCHANGED fnVars

\* DLStatus without the call of raise_for_status.
DLStatus_unchecked ==
    /\ pc = "dl_status"
    /\ pc' = "dl_headers"
    /\ UNCHANGED <<url, language, clicked, shown, placeholder, httpRequests, resp,
                   total, tmp, chunk, nchunks, written, downloaded, reports, exc,
                   returned, downloaded_path, transcribeCalls, hint, removeFailed>>
    /\ UNCHANGED fnVars

\* Line 69: r.raise_for_status().  An exception leaves the with block, which
\* closes the response.
DLStatus ==
    /\ pc = "dl_status"
    /\ \/ /\ raise_for_status(resp.status)
          /\ exc' = "RequestException"
          /\ returned' = "raised"
          /\ resp' = [resp EXCEPT !.open = FALSE]
          /\ pc' = "main_except"
       \/ /\ ~raise_for_status(resp.status)
          /\ pc' = "dl_headers"
          /\ UNCHANGED <<exc, returned, resp>>
    /\ UNCHANGED <<url, language, clicked, shown, placeholder, httpRequests, total,
                   tmp, chunk, nchunks, written, downloaded, reports,
                   downloaded_path, transcribeCalls, hint, removeFailed>>
    /\ UNCHANGED fnVars

\* The Content-Type header as line 71 reads it: "" when absent.
content_type_of(r) == IF r.type = None THEN <<>> ELSE r.type

\* Lines 70-72: total and the extension.  int raises ValueError on a
\* Content-Length that is no number, infer_extension what urlparse raises.
DLHeaders ==
    /\ pc = "dl_headers"
    /\ \/ /\ \/ resp.length # None /\ ~IsNumber(resp.length)
             \/ download_suffix(url, content_type_of(resp)).raised
          /\ exc' = "Exception"
          /\ returned' = "raised"
          /\ resp' = [resp EXCEPT !.open = FALSE]
          /\ pc' = "main_except"
          /\ UNCHANGED total
       \/ /\ resp.length = None \/ IsNumber(resp.length)
          /\ ~download_suffix(url, content_type_of(resp)).raised
          /\ total' = IF resp.length = None THEN 0 ELSE IntOf(resp.length)
          /\ pc' = "dl_tmp"
          /\ UNCHANGED <<exc, returned, resp>>
    /\ UNCHANGED <<url, language, clicked, shown, placeholder, httpRequests, tmp,
                   chunk, nchunks, written, downloaded, reports, downloaded_path,
                   transcribeCalls, hint, removeFailed>>
    /\ UNCHANGED fnVars

\* Lines 73-79: the temporary file, created and opened with the suffix, or
\* an OSError of NamedTemporaryFile.
DLTempFile ==
    /\ pc = "dl_tmp"
    /\ \/ /\ tmp' = [created |-> TRUE, exists |-> TRUE, open |-> TRUE,
                     flushed |-> FALSE,
                     suffix |-> download_suffix(url, content_type_of(resp)).value]
          /\ downloaded' = 0
          /\ pc' = "dl_bar"
          /\ UNCHANGED <<exc, returned, resp>>
       \/ /\ exc' = "Exception"
          /\ returned' = "raised"
          /\ resp' = [resp EXCEPT !.open = FALSE]
          /\ pc' = "main_except"
          /\ UNCHANGED <<tmp, downloaded>>
    /\ UNCHANGED <<url, language, clicked, shown, placeholder, httpRequests, total,
                   chunk, nchunks, written, reports, downloaded_path,
                   transcribeCalls, hint, removeFailed>>
    /\ UNCHANGED fnVars

\* Line 80: the progress bar is created, before the try statement: an
\* exception of this call leaves download_media without the finally block.
DLProgressBar ==
    /\ pc = "dl_bar"
    /\ \/ /\ reports' = Append(reports, [value |-> <<0, 1>>, mb |-> 0])
          /\ pc' = "dl_iter"
          /\ UNCHANGED <<exc, returned, resp>>
       \/ /\ exc' = "Exception"
          /\ returned' = "raised"
          /\ resp' = [resp EXCEPT !.open = FALSE]
          /\ pc' = "main_except"
          /\ UNCHANGED reports
    /\ UNCHANGED <<url, language, clicked, shown, placeholder, httpRequests, total,
                   tmp, chunk, nchunks, written, downloaded, downloaded_path,
                   transcribeCalls, hint, removeFailed>>
    /\ UNCHANGED fnVars

\* Line 82: the next chunk, the end of the body, or a RequestException of
\* the connection.
DLIter ==
    /\ pc = "dl_iter"
    /\ \/ /\ nchunks < MaxChunks
          /\ \E n \in CHUNK_LENS : chunk' = n
          /\ nchunks' = nchunks + 1
          /\ pc' = "dl_chunk"
          /\ UNCHANGED exc
       \/ /\ pc' = "dl_finally"
          /\ UNCHANGED <<chunk, nchunks, exc>>
       \/ /\ exc' = "RequestException"
          /\ pc' = "dl_finally"
          /\ UNCHANGED <<chunk, nchunks>>
    /\ UNCHANGED <<url, language, clicked, shown, placeholder, httpRequests, resp,
                   total, tmp, written, downloaded, reports, returned,
                   downloaded_path, transcribeCalls, hint, removeFailed>>
    /\ UNCHANGED fnVars

\* Lines 83-91: an empty chunk is skipped; another is written and counted,
\* and the bar updated.  The write may raise (nothing is counted then), and
\* so may the update (after the count).
DLChunk ==
    /\ pc = "dl_chunk"
    /\ \/ /\ chunk = 0
          /\ pc' = "dl_iter"
          /\ UNCHANGED <<written, downloaded, reports, exc>>
       \/ /\ chunk # 0
          /\ written' = Append(written, chunk)
          /\ downloaded' = downloaded + chunk
          /\ reports' = Append(reports, progress_update(downloaded + chunk, total))
          /\ pc' = "dl_iter"
          /\ UNCHANGED exc
       \/ /\ chunk # 0
          /\ exc' = "Exception"
          /\ pc' = "dl_finally"
          /\ UNCHANGED <<written, downloaded, reports>>
       \/ /\ chunk # 0
          /\ written' = Append(written, chunk)
          /\ downloaded' = downloaded + chunk
          /\ exc' = "Exception"
          /\ pc' = "dl_finally"
          /\ UNCHANGED reports
    /\ UNCHANGED <<url, language, clicked, shown, placeholder, httpRequests, resp,
                   total, tmp, chunk, nchunks, returned, downloaded_path,
                   transcribeCalls, hint, removeFailed>>
    /\ UNCHANGED fnVars

\* Lines 92-97: flush, close, progress_bar.empty(); then the return of the
\* path, or the exception in flight goes on.  An exception of empty() takes
\* the place of either.
DLFinally ==
    /\ pc = "dl_finally"
    /\ tmp' = [tmp EXCEPT !.flushed = TRUE, !.open = FALSE]
    /\ resp' = [resp EXCEPT !.open = FALSE]
    /\ \/ /\ exc = "none"
          /\ returned' = "path"
          /\ downloaded_path' = "tmp"
          /\ pc' = "main_transcribe"
          /\ UNCHANGED exc
       \/ /\ exc # "none"
          /\ returned' = "raised"
          /\ pc' = "main_except"
          /\ UNCHANGED <<exc, downloaded_path>>
       \/ /\ exc' = "Exception"
          /\ returned' = "raised"
          /\ pc' = "main_except"
          /\ UNCHANGED downloaded_path
    /\ UNCHANGED <<url, language, clicked, shown, placeholder, httpRequests, total,
                   chunk, nchunks, written, downloaded, reports, transcribeCalls,
                   hint, removeFailed>>
    /\ UNCHANGED fnVars

(***************************************************************************)
(* main, after the download (src/app.py lines 135-160)                     *)
(***************************************************************************)

\* Line 136: the size in bytes above which main warns.
LARGE_FILE_BYTES == 50 * 1000000

\* Lines 135-149: the size warning, then transcribe_file, which returns the
\* text (shown with the download button) or raises.
MainTranscribe ==
    /\ pc = "main_transcribe"
    /\ transcribeCalls' = transcribeCalls + 1
    /\ hint' = language_hint(language)
    /\ \/ /\ shown' = shown
                        \cup (IF SumSeq(written) > LARGE_FILE_BYTES
                              THEN {"warning: large file"} ELSE {})
                        \cup {"success", "transcript", "download button"}
          /\ pc' = "main_finally"
          /\ UNCHANGED exc
       \/ /\ shown' = shown
                        \cup (IF SumSeq(written) > LARGE_FILE_BYTES
                              THEN {"warning: large file"} ELSE {})
          /\ exc' = "Exception"
          /\ pc' = "main_except"
    /\ UNCHANGED <<url, language, clicked, placeholder, httpRequests, resp, total,
                   tmp, chunk, nchunks, written, downloaded, reports, returned,
                   downloaded_path, removeFailed>>
    /\ UNCHANGED fnVars

\* Lines 150-153: the except clauses.
MainExcept ==
    /\ pc = "main_except"
    /\ shown' = shown \cup { IF exc = "RequestException"
                             THEN "error: failed to download media"
                             ELSE "error: an error occurred" }
    /\ exc' = "none"
    /\ pc' = "main_finally"
    /\ UNCHANGED <<url, language, clicked, placeholder, httpRequests, resp, total,
                   tmp, chunk, nchunks, written, downloaded, reports, returned,
                   downloaded_path, transcribeCalls, hint, removeFailed>>
    /\ UNCHANGED fnVars

\* Lines 154-160: the placeholder is emptied; the file is removed when main
\* holds its path and it exists; an exception of os.remove is swallowed.
MainFinally ==
    /\ pc = "main_finally"
    /\ placeholder' = "emptied"
    /\ \/ /\ downloaded_path # "None"
          /\ tmp.exists
          /\ tmp' = [tmp EXCEPT !.exists = FALSE]
          /\ UNCHANGED removeFailed
       \/ /\ downloaded_path # "None"
          /\ tmp.exists
          /\ removeFailed' = TRUE
          /\ UNCHANGED tmp
       \/ /\ ~(downloaded_path # "None" /\ tmp.exists)
          /\ UNCHANGED <<tmp, removeFailed>>
    /\ pc' = "done"
    /\ UNCHANGED <<url, language, clicked, shown, httpRequests, resp, total, chunk,
                   nchunks, written, downloaded, reports, exc, returned,
                   downloaded_path, transcribeCalls, hint>>
    /\ UNCHANGED fnVars

Next ==
    \/ MainClick
    \/ DLGet
    \/ DLStatus
    \/ DLHeaders
    \/ DLTempFile
    \/ DLProgressBar
    \/ DLIter
    \/ DLChunk
    \/ DLFinally
    \/ MainTranscribe
    \/ MainExcept
    \/ MainFinally

Spec == Init /\ [][Next]_vars

(***************************************************************************)
(* Direct calls of the pure functions, on every input                      *)
(***************************************************************************)

InitFn ==
    /\ pc = "idle"
    /\ url = <<>>
    /\ language = "Auto-detect"
    /\ clicked = FALSE
    /\ FlowStart
    /\ fnUrl \in URLS
    /\ fnCt \in CONTENT_TYPES
    /\ FnStart

CallIsValidUrl ==
    /\ pc = "idle"
    /\ fnCall = "none"
    /\ fnCall' = "is_valid_url"
    /\ fnResult' = [raised |-> FALSE, value |-> is_valid_url(fnUrl)]
    /\ UNCHANGED <<fnUrl, fnCt>>
    /\ UNCHANGED flowVars

CallInferExtension ==
    /\ pc = "idle"
    /\ fnCall = "none"
    /\ fnCall' = "infer_extension"
    /\ fnResult' = infer_extension(fnUrl, fnCt)
    /\ UNCHANGED <<fnUrl, fnCt>>
    /\ UNCHANGED flowVars

CallDownloadSuffix ==
    /\ pc = "idle"
    /\ fnCall = "none"
    /\ fnCall' = "download_suffix"
    /\ fnResult' = download_suffix(fnUrl, fnCt)
    /\ UNCHANGED <<fnUrl, fnCt>>
    /\ UNCHANGED flowVars

NextFn ==
    \/ CallIsValidUrl
    \/ CallInferExtension
    \/ CallDownloadSuffix

SpecFn == InitFn /\ [][NextFn]_vars

(***************************************************************************)
(* Properties of the request-handling flow, under Spec                     *)
(***************************************************************************)

\* C1: a temporary file that download_media created no longer exists once
\* main's handler has finished, however the download and the transcription
\* ended.  It is stated for the runs in which download_media's finally block
\* ran and os.remove did not fail, so that what refutes it is neither the
\* unclosed handle of C2 nor a removal that failed and was swallowed.
C1_TempFileGone ==
    (pc = "done" /\ tmp.created /\ tmp.flushed /\ ~removeFailed) => ~tmp.exists

\* C2: once the temporary file is open, download_media has flushed and closed
\* it when control is back with the caller, by return or by exception.
C2_HandleClosed ==
    (returned # "no" /\ tmp.created) => (tmp.flushed /\ ~tmp.open)

\* What C3 says of a response download_media has refused: a RequestException,
\* no path, no temporary file, no chunk read, and main's download error.
RefusedAtStatus ==
    /\ returned = "raised"
    /\ downloaded_path = "None"
    /\ ~tmp.created
    /\ nchunks = 0
    /\ reports = <<>>
    /\ pc \in {"main_except", "main_finally", "done"}
    /\ pc = "main_except" => exc = "RequestException"
    /\ pc \in {"main_finally", "done"}
          => ("error: failed to download media" \in shown
              /\ "error: an error occurred" \notin shown)

\* The status check of the response received has been made.
StatusChecked == resp.status # 0 /\ pc # "dl_status"

ContentLength ==
    IF resp.length # None /\ IsNumber(resp.length) THEN IntOf(resp.length) ELSE 0

\* C4: the counter is the sum of the chunks written; the update after the
\* k-th written chunk shows the sum of the first k, as a fraction of
\* Content-Length when that is present and positive, without a fraction
\* otherwise; every written chunk is followed by its update; and when the
\* chunks add up to Content-Length the last update shows all of it.
C4_ProgressReports ==
    tmp.created =>
        /\ downloaded = SumSeq(written)
        /\ Len(reports) <= Len(written) + 1
        /\ \A k \in 1..(Len(reports) - 1) :
              LET d == SumSeq(SubSeq(written, 1, k)) IN
              /\ reports[k + 1].mb = (d + 50000) \div 100000
              /\ reports[k + 1].value =
                    IF ContentLength > 0
                    THEN (IF d >= ContentLength THEN <<1, 1>> ELSE <<d, ContentLength>>)
                    ELSE <<0, 1>>
        /\ pc = "dl_iter" => Len(reports) = Len(written) + 1
        /\ (returned = "path" /\ ContentLength > 0 /\ SumSeq(written) = ContentLength)
              => reports[Len(reports)].value = <<1, 1>>

\* Two chunks that add up to the Content-Length, the download returned.
C4_Witness ==
    /\ returned = "path"
    /\ ContentLength = CHUNK_SIZE + 1
    /\ Len(written) = 2
    /\ downloaded = ContentLength
    /\ Len(reports) = 3

\* C10: a click on an empty or invalid URL ends with the error shown and
\* nothing else done: no request, no temporary file, no placeholder, no
\* transcription.
C10_InvalidUrlRefused ==
    (clicked /\ (url = <<>> \/ ~is_valid_url(url))) =>
        /\ pc \in {"main", "done"}
        /\ pc = "done" => shown = {"error: invalid url"}
        /\ httpRequests = 0
        /\ ~tmp.created
        /\ placeholder = "none"
        /\ transcribeCalls = 0

\* An ftp URL was refused.
C10_Witness ==
    /\ pc = "done"
    /\ clicked
    /\ url = <<"f","t","p",":","/","/","x",".","c","o","m","/","v",".","m","p","4">>
    /\ shown = {"error: invalid url"}

(***************************************************************************)
(* Properties of the pure functions, under SpecFn                          *)
(***************************************************************************)

\* urlparse accepts the URL (it raises on the others).
Parses(u) == ~urlparse(u).raised

\* The suffix of the URL's path, lowercased.
PathSuffixOf(u) == lower(splitext_ext(urlparse(u).path))

\* "text before the first ';', whitespace-trimmed, lowercased"
NormalizedType(ct) == lower(strip(split_first(ct, ";")))

\* The content type resolves to nothing: it is absent or empty, or it is no
\* key of the table and the generic guess is none or unsupported.
NoTypeResolution(ct) ==
    \/ ~Truthy(ct)
    \/ /\ NormalizedType(ct) \notin CONTENT_TYPE_KEYS
       /\ \/ guess_extension(NormalizedType(ct)) = None
          \/ guess_extension(NormalizedType(ct)) \notin SUPPORTED_EXTS

InferCalled == fnCall = "infer_extension"

\* C5: whatever the URL and the content type, the extension infer_extension
\* returns, and the suffix download_media gives the temporary file, is in
\* SUPPORTED_EXTS; so is every value of CONTENT_TYPE_TO_EXT, and the default.
C5_ExtensionSupported ==
    /\ (fnCall \in {"infer_extension", "download_suffix"} /\ ~fnResult.raised)
          => fnResult.value \in SUPPORTED_EXTS
    /\ \A k \in CONTENT_TYPE_KEYS : CONTENT_TYPE_TO_EXT(k) \in SUPPORTED_EXTS
    /\ DEFAULT_EXT \in SUPPORTED_EXTS

\* A type whose generic guess (".aac") is unsupported got a supported suffix.
C5_Witness ==
    /\ fnCall = "download_suffix"
    /\ fnUrl = <<"h","t","t","p",":","/","/","x",".","c","/","a",".","t","x","t">>
    /\ fnCt = <<"a","u","d","i","o","/","a","a","c">>
    /\ fnResult.value \in SUPPORTED_EXTS

\* C6: when the suffix of the URL's path, lowercased, is in SUPPORTED_EXTS,
\* infer_extension returns that lowercased suffix whatever the content type
\* (".../b.WAV" gives ".wav", also with text/html).
C6_PathSuffixWins ==
    InferCalled =>
        /\ (Parses(fnUrl) /\ PathSuffixOf(fnUrl) \in SUPPORTED_EXTS)
              => (~fnResult.raised /\ fnResult.value = PathSuffixOf(fnUrl))
        /\ fnUrl = <<"h","t","t","p","s",":","/","/","x",".","c","o","m","/","a","/","b",".","W","A","V">>
              => fnResult.value = <<".","w","a","v">>

\* A ".mp3" path with a content type that maps to ".wav".
C6_Witness ==
    /\ InferCalled
    /\ fnUrl = <<"h","t","t","p",":","/","/","x",".","c","/","a",".","m","p","3">>
    /\ fnCt = <<" ","A","u","d","i","o","/","X","-","W","a","v"," ",";","q">>
    /\ fnResult.value = <<".","m","p","3">>

\* C7: when the path has no suffix or one outside SUPPORTED_EXTS, and the
\* content type, normalized, is a key of CONTENT_TYPE_TO_EXT, infer_extension
\* returns the key's extension ("audio/mpeg; charset=binary" gives ".mp3").
C7_ContentTypeLookup ==
    (InferCalled /\ Parses(fnUrl) /\ PathSuffixOf(fnUrl) \notin SUPPORTED_EXTS
       /\ Truthy(fnCt))
       => /\ NormalizedType(fnCt) \in CONTENT_TYPE_KEYS
             => (~fnResult.raised
                 /\ fnResult.value = CONTENT_TYPE_TO_EXT(NormalizedType(fnCt)))
          /\ fnCt = <<"a","u","d","i","o","/","m","p","e","g",";"," ","c","h","a","r","s","e","t","=","b","i","n","a","r","y">>
             => fnResult.value = <<".","m","p","3">>

\* An unsupported path suffix and a padded, mixed-case type with a parameter.
C7_Witness ==
    /\ InferCalled
    /\ fnUrl = <<"h","t","t","p",":","/","/","x",".","c","/","a",".","t","x","t">>
    /\ fnCt = <<" ","A","u","d","i","o","/","X","-","W","a","v"," ",";","q">>
    /\ fnResult.value = <<".","w","a","v">>

HasPrefixCI(s, p) == Len(s) >= Len(p) /\ lower(SubSeq(s, 1, Len(p))) = p

\* The text of s after its first n characters, up to the first "/", "?", "#".
AuthorityAfter(s, n) ==
    LET rest == SubSeq(s, n + 1, Len(s))
        stops == { i \in 1..Len(rest) : rest[i] \in {"/", "?", "#"} }
    IN IF stops = {} THEN rest
       ELSE SubSeq(rest, 1, (CHOOSE i \in stops : \A j \in stops : i <= j) - 1)

\* The string, leading blanks apart, is "http://" or "https://" and then a
\* host that is not empty and holds no bracket without the other.
IsHttpUrlWithHost(s0) ==
    LET s == lstrip(s0) IN
    \E p \in { <<"h","t","t","p",":","/","/">>, <<"h","t","t","p","s",":","/","/">> } :
        /\ HasPrefixCI(s, p)
        /\ AuthorityAfter(s, Len(p)) # <<>>
        /\ Contains(AuthorityAfter(s, Len(p)), "[") <=> Contains(AuthorityAfter(s, Len(p)), "]")

====
